---- MODULE Spec2Model ----
(***************************************************************************)
(* Model of the sparse-slot crate (src/src/lib.rs): SparseSlot<T>, a       *)
(* fixed-capacity slot map whose occupied entries are chained by an        *)
(* intrusive doubly linked list rooted at first_occupied.                  *)
(*                                                                         *)
(* Option<usize> and Option<T> are encoded as integers: None is -1, and    *)
(* Some(x) is x (indices are >= 0, stored values are 1..MaxValue).         *)
(***************************************************************************)
EXTENDS Integers, Sequences, FiniteSets, TLC

\* ------------------------------------------------------------------ bounds

\* Largest capacity passed to SparseSlot::new by Init; InitWide builds the
\* container of MaxCapacity + 1 slots.
MaxCapacity == 2

\* Stored values of type T are 1..MaxValue.
MaxValue == 2

\* ------------------------------------------------------- program constants

\* Id::generation and Entry::generation are u8: arithmetic is modulo 2^8.
U8Mod == 256

None == -1

Values == 1..MaxValue

\* Generations a caller passes in an Id: the first and the last u8.
GenInputs == {0, U8Mod - 1}

\* ---------------------------------------------------------------------- Id

IdNew(index, generation) == [index |-> index, generation |-> generation]

WrappingAdd1(g) == (g + 1) % U8Mod

IdNext(id) == [index |-> id.index, generation |-> WrappingAdd1(id.generation)]

\* ------------------------------------------------------------------- Entry

EntryDefault ==
    [generation |-> 0, item |-> None, next_index |-> None, previous_index |-> None]

\* -------------------------------------------------------------- SparseSlot

New(capacity) ==
    [items |-> [i \in 0..(capacity - 1) |-> EntryDefault], first_occupied |-> None]

Capacity(s) == Cardinality(DOMAIN s.items)

SlotLen(s) == Cardinality({i \in DOMAIN s.items : s.items[i].item # None})

IsEmpty(s) == SlotLen(s) = 0

\* index < self.items.len(), for an index of type usize.
InRange(s, index) == index \in DOMAIN s.items

\* Indices a caller passes in an Id: every slot and the first index out of
\* range.
IndexInputs(s) == 0..Capacity(s)

\* The walk without its break at the first index past id.index: it runs to
\* the end of the list.
RECURSIVE TrySetWalkToEnd(_, _, _, _, _)
TrySetWalkToEnd(items, index, prev_index, next_index, fuel) ==
    IF next_index = None
    THEN [ended |-> TRUE, prev_index |-> prev_index, next_index |-> next_index]
    ELSE IF fuel = 0
    THEN [ended |-> FALSE, prev_index |-> prev_index, next_index |-> next_index]
    ELSE TrySetWalkToEnd(items, index, next_index, items[next_index].next_index,
                         fuel - 1)

\* The while-let loop of try_set: walks next_index from first_occupied until
\* it passes id.index.  A walk that has not ended after Capacity+1 hops has
\* revisited an entry and never ends.
RECURSIVE TrySetWalk(_, _, _, _, _)
TrySetWalk(items, index, prev_index, next_index, fuel) ==
    IF next_index = None \/ next_index > index
    THEN [ended |-> TRUE, prev_index |-> prev_index, next_index |-> next_index]
    ELSE IF fuel = 0
    THEN [ended |-> FALSE, prev_index |-> prev_index, next_index |-> next_index]
    ELSE TrySetWalk(items, index, next_index, items[next_index].next_index, fuel - 1)

\* try_set storing the item without writing id.generation into the entry.
TrySetKeepsGeneration(s, id, item) ==
    IF ~InRange(s, id.index)
    THEN [slot |-> s, result |-> "IndexOutOfBounds"]
    ELSE IF s.items[id.index].item # None
    THEN [slot |-> s, result |-> "Occupied"]
    ELSE
      LET w == TrySetWalk(s.items, id.index, None, s.first_occupied, Capacity(s) + 1)
          items1 == [s.items EXCEPT ![id.index] =
                        [generation |-> s.items[id.index].generation, item |-> item,
                         previous_index |-> w.prev_index, next_index |-> w.next_index]]
          items2 == IF w.prev_index # None
                    THEN [items1 EXCEPT ![w.prev_index].next_index = id.index]
                    ELSE items1
          first2 == IF w.prev_index # None THEN s.first_occupied ELSE id.index
          items3 == IF w.next_index # None
                    THEN [items2 EXCEPT ![w.next_index].previous_index = id.index]
                    ELSE items2
      IN IF ~w.ended
         THEN [slot |-> s, result |-> "Diverge"]
         ELSE [slot |-> [items |-> items3, first_occupied |-> first2], result |-> "Ok"]

TrySet(s, id, item) ==
    IF ~InRange(s, id.index)
    THEN [slot |-> s, result |-> "IndexOutOfBounds"]
    ELSE IF s.items[id.index].item # None
    THEN [slot |-> s, result |-> "Occupied"]
    ELSE
      LET w == TrySetWalk(s.items, id.index, None, s.first_occupied, Capacity(s) + 1)
          items1 == [s.items EXCEPT ![id.index] =
                        [generation |-> id.generation, item |-> item,
                         previous_index |-> w.prev_index, next_index |-> w.next_index]]
          items2 == IF w.prev_index # None
                    THEN [items1 EXCEPT ![w.prev_index].next_index = id.index]
                    ELSE items1
          first2 == IF w.prev_index # None THEN s.first_occupied ELSE id.index
          items3 == IF w.next_index # None
                    THEN [items2 EXCEPT ![w.next_index].previous_index = id.index]
                    ELSE items2
      IN IF ~w.ended
         THEN [slot |-> s, result |-> "Diverge"]
         ELSE [slot |-> [items |-> items3, first_occupied |-> first2], result |-> "Ok"]

\* remove unlinking the entry before it compares generations and looks at
\* the item: a miss returns None with the entry out of the list.
RemoveUnlinksOnMiss(s, id) ==
    IF ~InRange(s, id.index)
    THEN [slot |-> s, result |-> "Panic", value |-> None]
    ELSE
      LET entry == s.items[id.index]
          prev_index == entry.previous_index
          next_index == entry.next_index
          first1 == IF id.index = s.first_occupied THEN next_index ELSE s.first_occupied
          items1 == IF prev_index # None
                    THEN [s.items EXCEPT ![prev_index].next_index = next_index]
                    ELSE s.items
          items2 == IF next_index # None
                    THEN [items1 EXCEPT ![next_index].previous_index = prev_index]
                    ELSE items1
          items3 == [items2 EXCEPT ![id.index] =
                        [generation |-> WrappingAdd1(items2[id.index].generation),
                         item |-> None, next_index |-> None, previous_index |-> None]]
      IN IF entry.generation # id.generation \/ entry.item = None
         THEN [slot |-> [items |-> items2, first_occupied |-> first1],
               result |-> "None", value |-> None]
         ELSE [slot |-> [items |-> items3, first_occupied |-> first1],
               result |-> "Some", value |-> entry.item]

\* remove relinking the next entry by rebuilding it from the default entry
\* (Entry { previous_index, ..Default::default() }): the neighbour loses its
\* item, generation and next link.
RemoveRebuildsNext(s, id) ==
    IF ~InRange(s, id.index)
    THEN [slot |-> s, result |-> "Panic", value |-> None]
    ELSE
      LET entry == s.items[id.index]
          prev_index == entry.previous_index
          next_index == entry.next_index
          first1 == IF id.index = s.first_occupied THEN next_index ELSE s.first_occupied
          items1 == IF prev_index # None
                    THEN [s.items EXCEPT ![prev_index].next_index = next_index]
                    ELSE s.items
          items2 == IF next_index # None
                    THEN [items1 EXCEPT ![next_index] =
                             [EntryDefault EXCEPT !.previous_index = prev_index]]
                    ELSE items1
          items3 == [items2 EXCEPT ![id.index] =
                        [generation |-> WrappingAdd1(items2[id.index].generation),
                         item |-> None, next_index |-> None, previous_index |-> None]]
      IN IF entry.generation # id.generation \/ entry.item = None
         THEN [slot |-> s, result |-> "None", value |-> None]
         ELSE [slot |-> [items |-> items3, first_occupied |-> first1],
               result |-> "Some", value |-> entry.item]

Remove(s, id) ==
    IF ~InRange(s, id.index)
    THEN [slot |-> s, result |-> "Panic", value |-> None]
    ELSE
      LET entry == s.items[id.index]
          prev_index == entry.previous_index
          next_index == entry.next_index
          first1 == IF id.index = s.first_occupied THEN next_index ELSE s.first_occupied
          items1 == IF prev_index # None
                    THEN [s.items EXCEPT ![prev_index].next_index = next_index]
                    ELSE s.items
          items2 == IF next_index # None
                    THEN [items1 EXCEPT ![next_index].previous_index = prev_index]
                    ELSE items1
          items3 == [items2 EXCEPT ![id.index] =
                        [generation |-> WrappingAdd1(items2[id.index].generation),
                         item |-> None, next_index |-> None, previous_index |-> None]]
      IN IF entry.generation # id.generation \/ entry.item = None
         THEN [slot |-> s, result |-> "None", value |-> None]
         ELSE [slot |-> [items |-> items3, first_occupied |-> first1],
               result |-> "Some", value |-> entry.item]

\* clear emptying the storage itself (Vec::clear) instead of its entries.
ClearStorage(s) == New(0)

Clear(s) ==
    [items |-> [i \in DOMAIN s.items |->
                   IF s.items[i].item # None
                   THEN [generation |-> WrappingAdd1(s.items[i].generation),
                         item |-> None, next_index |-> None, previous_index |-> None]
                   ELSE s.items[i]],
     first_occupied |-> None]

\* get without its comparison of generations.
GetAnyGeneration(s, id) ==
    IF ~InRange(s, id.index)
    THEN [result |-> "Panic", value |-> None]
    ELSE IF s.items[id.index].item = None
    THEN [result |-> "None", value |-> None]
    ELSE [result |-> "Some", value |-> s.items[id.index].item]

Get(s, id) ==
    IF ~InRange(s, id.index)
    THEN [result |-> "Panic", value |-> None]
    ELSE IF s.items[id.index].generation # id.generation
    THEN [result |-> "None", value |-> None]
    ELSE IF s.items[id.index].item = None
    THEN [result |-> "None", value |-> None]
    ELSE [result |-> "Some", value |-> s.items[id.index].item]

GetMut(s, id) ==
    IF ~InRange(s, id.index)
    THEN [result |-> "None", value |-> None]
    ELSE IF s.items[id.index].generation # id.generation
    THEN [result |-> "None", value |-> None]
    ELSE IF s.items[id.index].item = None
    THEN [result |-> "None", value |-> None]
    ELSE [result |-> "Some", value |-> s.items[id.index].item]

\* One call of Iter::next with the iterator at next_index.
IterNext(s, next_index) ==
    IF next_index = None
    THEN [next_index |-> None, some |-> FALSE, id |-> IdNew(None, None), value |-> None]
    ELSE LET entry == s.items[next_index]
         IN [next_index |-> entry.next_index,
             some |-> entry.item # None,
             id |-> IF entry.item # None
                    THEN IdNew(next_index, entry.generation)
                    ELSE IdNew(None, None),
             value |-> entry.item]

\* The items a consumer (a for loop, collect) takes from an iterator at
\* next_index: those before the first None, at most fuel of them.
RECURSIVE IterTake(_, _, _)
IterTake(s, next_index, fuel) ==
    LET r == IterNext(s, next_index)
    IN IF ~r.some \/ fuel = 0
       THEN << >>
       ELSE << [id |-> r.id, value |-> r.value] >> \o IterTake(s, r.next_index, fuel - 1)

\* slot.iter() consumed for at most fuel items.
Iter(s, fuel) == IterTake(s, s.first_occupied, fuel)

FirstId(s) ==
    IF s.first_occupied = None
    THEN IdNew(None, None)
    ELSE IdNew(s.first_occupied, s.items[s.first_occupied].generation)

LastId(s) ==
    LET occ == {i \in DOMAIN s.items : s.items[i].item # None}
    IN IF occ = {}
       THEN IdNew(None, None)
       ELSE LET index == CHOOSE i \in occ : \A j \in occ : j <= i
            IN IdNew(index, s.items[index].generation)

\* One call of the closure drain() returns, with its cursor at index.
\* `entry.generation - 1` is computed after the wrapping increment: when the
\* increment wrapped to 0 the subtraction overflows, which panics in a build
\* with overflow checks and wraps to 255 in one without.
RECURSIVE DrainNext(_, _, _, _)
DrainNext(s, index, overflow_checks, fuel) ==
    IF index = None
    THEN [slot |-> s, index |-> None, result |-> "None",
          id |-> IdNew(None, None), value |-> None]
    ELSE IF fuel = 0
    THEN [slot |-> s, index |-> index, result |-> "Diverge",
          id |-> IdNew(None, None), value |-> None]
    ELSE
      LET entry == s.items[index]
          generation1 == WrappingAdd1(entry.generation)
          taken == [s EXCEPT !.items[index].item = None,
                             !.items[index].generation = generation1]
      IN IF entry.item # None
         THEN IF generation1 = 0 /\ overflow_checks
              THEN [slot |-> taken, index |-> entry.next_index, result |-> "Panic",
                    id |-> IdNew(None, None), value |-> None]
              ELSE [slot |-> taken, index |-> entry.next_index, result |-> "Some",
                    id |-> IdNew(index, (generation1 - 1) % U8Mod),
                    value |-> entry.item]
         ELSE DrainNext(s, entry.next_index, overflow_checks, fuel - 1)

\* ------------------------------------------------------------------- state

VARIABLES
    slot,    \* the SparseSlot: [items, first_occupied]
    drain,   \* the live drain() iterator: [active, index]
    last     \* the last call made and what it returned

vars == << slot, drain, last >>

NoDrain == [active |-> FALSE, index |-> None]

Call(op, result) ==
    [op |-> op, result |-> result]

\* A call that panicked or never returns ends the run.
Running == last.result \notin {"Panic", "Diverge"}

\* No drain() iterator holds the exclusive borrow of the slot.
Free == Running /\ ~drain.active

Init ==
    /\ \E capacity \in 0..MaxCapacity : slot = New(capacity)
    /\ drain = NoDrain
    /\ last = Call("new", "Ok")

\* The container of MaxCapacity + 1 slots.
InitWide ==
    /\ slot = New(MaxCapacity + 1)
    /\ drain = NoDrain
    /\ last = Call("new", "Ok")

DoTrySet ==
    /\ Free
    /\ \E index \in IndexInputs(slot), generation \in GenInputs, item \in Values :
          LET id == IdNew(index, generation)
              r == TrySet(slot, id, item)
          IN /\ slot' = r.slot
             /\ last' = Call("try_set", r.result)
    /\ UNCHANGED drain

DoRemove ==
    /\ Free
    /\ \E index \in IndexInputs(slot), generation \in GenInputs :
          LET id == IdNew(index, generation)
              r == Remove(slot, id)
          IN /\ slot' = r.slot
             /\ last' = Call("remove", r.result)
    /\ UNCHANGED drain

DoClear ==
    /\ Free
    /\ slot' = Clear(slot)
    /\ last' = Call("clear", "Ok")
    /\ UNCHANGED drain

DoDrain ==
    /\ Free
    /\ drain' = [active |-> TRUE, index |-> slot.first_occupied]
    /\ last' = Call("drain", "Ok")
    /\ UNCHANGED slot

DoDrainNext ==
    /\ Running
    /\ drain.active
    /\ \E overflow_checks \in BOOLEAN :
          LET r == DrainNext(slot, drain.index, overflow_checks, Capacity(slot) + 1)
          IN /\ slot' = r.slot
             /\ drain' = [active |-> TRUE, index |-> r.index]
             /\ last' = Call("drain_next", r.result)

DoDrainDrop ==
    /\ Running
    /\ drain.active
    /\ drain' = NoDrain
    /\ last' = Call("drain_drop", "Ok")
    /\ UNCHANGED slot

Next ==
    \/ DoTrySet
    \/ DoRemove
    \/ DoClear
    \/ DoDrain
    \/ DoDrainNext
    \/ DoDrainDrop

Spec == Init /\ [][Next]_vars

\* The slot driven by try_set, remove and clear only.
NextNoDrain ==
    \/ DoTrySet
    \/ DoRemove
    \/ DoClear

SpecNoDrain == (Init \/ InitWide) /\ [][NextNoDrain]_vars

\* Every operation on the container of MaxCapacity + 1 slots, the smallest
\* with an entry between two others in the list.
SpecWide == InitWide /\ [][Next]_vars

\* ------------------------------------------------------- reference notions

Occupied(s) == {i \in DOMAIN s.items : s.items[i].item # None}

\* The occupied indices found by scanning storage from index i upwards.
RECURSIVE ScanOccupied(_, _)
ScanOccupied(s, i) ==
    IF i >= Capacity(s)
    THEN << >>
    ELSE IF s.items[i].item # None
    THEN << i >> \o ScanOccupied(s, i + 1)
    ELSE ScanOccupied(s, i + 1)

\* The indices met by following next_index from index, at most fuel of them.
RECURSIVE Chain(_, _, _)
Chain(s, index, fuel) ==
    IF index = None \/ fuel = 0
    THEN << >>
    ELSE << index >> \o Chain(s, s.items[index].next_index, fuel - 1)

\* What iter() yields, consumed for one item more than there are slots.
IterAll(s) == Iter(s, Capacity(s) + 1)

IterIndices(s) == [k \in 1..Len(IterAll(s)) |-> IterAll(s)[k].id.index]

\* --------------------------------------------------------------------- C1

\* C1: after any sequence of try_set, remove and clear calls, iter() yields
\* exactly one pair per occupied slot, with the slot's index, its current
\* generation and its value, in strictly ascending index order: the indices
\* are those a scan of the storage finds.
C1_IterAscending ==
    LET seq == IterAll(slot)
    IN /\ IterIndices(slot) = ScanOccupied(slot, 0)
       /\ Len(seq) = SlotLen(slot)
       /\ \A k \in 1..Len(seq) :
             /\ seq[k].id.generation = slot.items[seq[k].id.index].generation
             /\ seq[k].value = slot.items[seq[k].id.index].item
       /\ \A k \in 1..(Len(seq) - 1) : seq[k].id.index < seq[k + 1].id.index

\* Two entries are left in the list after an entry was removed from it.
C1_Witness ==
    /\ last.op = "remove"
    /\ last.result = "Some"
    /\ Len(IterAll(slot)) = 2
    /\ slot.first_occupied # None
    /\ slot.items[slot.first_occupied].next_index # None

\* --------------------------------------------------------------------- C2

WellFormed(s) ==
    LET chain == Chain(s, s.first_occupied, Capacity(s) + 1)
    IN /\ chain = ScanOccupied(s, 0)
       /\ \A k \in 1..Len(chain) :
             s.items[chain[k]].previous_index = IF k = 1 THEN None ELSE chain[k - 1]
       /\ \A i \in DOMAIN s.items :
             s.items[i].item = None =>
                /\ s.items[i].next_index = None
                /\ s.items[i].previous_index = None
       /\ (s.first_occupied = None) <=> (Occupied(s) = {})

\* C2: after every public operation, a drain consumed in part or in full
\* included, following next_index from first_occupied visits exactly the
\* occupied slots in ascending order, previous_index mirrors next_index along
\* the chain, an empty slot has no links, and first_occupied is None exactly
\* when no slot is occupied.
C2_WellFormedAlways == (Running /\ ~drain.active) => WellFormed(slot)

\* ------------------------------------------------------------ probe inputs

\* Generations an identifier is probed with: those a caller passes and
\* their successors.
GenProbes == GenInputs \cup {WrappingAdd1(g) : g \in GenInputs}

Some(value) == [result |-> "Some", value |-> value]

\* --------------------------------------------------------------------- C3

\* C3: whenever try_set(id, v) returns Ok, get(id) and get_mut(id) called
\* next return v, for every index in range, every generation and every state
\* the container was brought to.
C3_RoundTrip ==
    Free =>
       \A index \in IndexInputs(slot), generation \in GenProbes, item \in Values :
          LET id == IdNew(index, generation)
              r == TrySet(slot, id, item)
          IN r.result = "Ok" =>
                /\ Get(r.slot, id) = Some(item)
                /\ GetMut(r.slot, id) = Some(item)

\* try_set has just returned Ok in a container a removal had emptied a slot
\* of, and the identifier of an entry stored under generation 255 reads its
\* value back.
C3_Witness ==
    /\ last.op = "try_set"
    /\ last.result = "Ok"
    /\ \E i \in DOMAIN slot.items :
          /\ slot.items[i].item # None
          /\ slot.items[i].generation = U8Mod - 1
          /\ Get(slot, IdNew(i, U8Mod - 1)) = Some(slot.items[i].item)
    /\ \E j \in DOMAIN slot.items :
          slot.items[j].item = None /\ slot.items[j].generation = 1

\* --------------------------------------------------------------------- C4

\* get(id), get_mut(id) and remove(id) all report absent.
Absent(s, id) ==
    /\ Get(s, id).result = "None"
    /\ GetMut(s, id).result = "None"
    /\ Remove(s, id).result = "None"

\* C4: when a slot is emptied (by remove, clear or drain) every identifier
\* of that slot is absent for get, get_mut and remove, and an absent
\* identifier stays absent through every step but a try_set that succeeds
\* with exactly its index and generation.
C4_Staleness ==
    [][slot' # slot =>
          \A index \in DOMAIN slot.items, generation \in GenProbes :
             LET id == IdNew(index, generation)
             IN /\ (slot.items[index].item # None /\ slot'.items[index].item = None)
                      => Absent(slot', id)
                /\ (~Absent(slot', id) /\ Absent(slot, id))
                      => /\ last'.op = "try_set"
                         /\ last'.result = "Ok"
                         /\ \E item \in Values :
                               slot' = TrySet(slot, id, item).slot]_vars

\* remove has just emptied a slot whose entry had generation 0 (only that
\* leaves an empty slot with generation 1): the identifier of that occupancy
\* is absent, while another slot is still occupied.
C4_Witness ==
    /\ last.op = "remove"
    /\ last.result = "Some"
    /\ \E j \in DOMAIN slot.items :
          /\ slot.items[j].item = None
          /\ slot.items[j].generation = 1
          /\ Absent(slot, IdNew(j, 0))
    /\ SlotLen(slot) >= 1

\* --------------------------------------------------------------------- C5

\* The drain iterator with its cursor at index has nothing left to yield.
DrainDone(s, index) ==
    DrainNext(s, index, FALSE, Capacity(s) + 1).result = "None"

\* C5: after remove(id) returned the value (or a drain consumed to the end
\* took it), try_set with the stale id is an error and stores nothing, and
\* try_set with id.next() succeeds.
C5_StaleTrySetRejected ==
    [][\A index \in DOMAIN slot.items, item \in Values :
          LET id == IdNew(index, slot.items[index].generation)
          IN (/\ slot.items[index].item # None
              /\ slot'.items[index].item = None
              /\ \/ last'.op = "remove" /\ last'.result = "Some"
                 \/ /\ last'.op = "drain_next"
                    /\ last'.result = "Some"
                    /\ DrainDone(slot', drain'.index))
             => /\ TrySet(slot', id, item).result \in {"IndexOutOfBounds", "Occupied"}
                /\ TrySet(slot', id, item).slot = slot'
                /\ TrySet(slot', IdNext(id), item).result = "Ok"]_vars

\* --------------------------------------------------------------------- C6

\* C6: try_set returns IndexOutOfBounds exactly when id.index >= capacity,
\* Occupied exactly when the index is in range and the slot holds a value,
\* whatever the generations, and Ok in every other case.
C6_TrySetResults ==
    Free =>
       \A index \in IndexInputs(slot), generation \in GenProbes, item \in Values :
          LET r == TrySet(slot, IdNew(index, generation), item)
          IN /\ (r.result = "IndexOutOfBounds") <=> (index >= Capacity(slot))
             /\ (r.result = "Occupied")
                   <=> (index < Capacity(slot) /\ slot.items[index].item # None)
             /\ (r.result = "Ok")
                   <=> (index < Capacity(slot) /\ slot.items[index].item = None)

\* --------------------------------------------------------------------- C7

\* C7: try_set on an empty slot in range succeeds for every generation,
\* whatever the slot's generation, and leaves the slot with the generation
\* of the identifier.
C7_TrySetAnyGeneration ==
    Free =>
       \A index \in DOMAIN slot.items, generation \in GenProbes, item \in Values :
          LET r == TrySet(slot, IdNew(index, generation), item)
          IN slot.items[index].item = None =>
                /\ r.result = "Ok"
                /\ r.slot.items[index].generation = generation

\* --------------------------------------------------------------------- C8

\* C8: a remove(id) that succeeds returns the stored value and leaves the
\* slot empty with generation (id.generation + 1) mod 256, the generation of
\* id.next(); clear increments once the generation of each slot it empties;
\* try_set(id.next(), v) then succeeds and get(id.next()) returns v.
C8_RemoveBumpsGeneration ==
    Free =>
       /\ \A index \in DOMAIN slot.items :
             LET id == IdNew(index, slot.items[index].generation)
                 r == Remove(slot, id)
             IN slot.items[index].item # None =>
                   /\ r = [slot |-> r.slot, result |-> "Some",
                           value |-> slot.items[index].item]
                   /\ r.slot.items[index].item = None
                   /\ r.slot.items[index].generation = (id.generation + 1) % U8Mod
                   /\ r.slot.items[index].generation = IdNext(id).generation
                   /\ \A item \in Values :
                         LET t == TrySet(r.slot, IdNext(id), item)
                         IN /\ t.result = "Ok"
                            /\ Get(t.slot, IdNext(id)) = Some(item)
       /\ \A index \in DOMAIN slot.items :
             /\ Clear(slot).items[index].item = None
             /\ Clear(slot).items[index].generation =
                   IF slot.items[index].item # None
                   THEN (slot.items[index].generation + 1) % U8Mod
                   ELSE slot.items[index].generation

\* --------------------------------------------------------------------- C9

\* C9: a slot's generation changes only when a removal empties the slot, by
\* one and wrapping; no try_set and no failed call changes a generation.
C9_GenerationOnlyOnRemoval ==
    [][\A index \in DOMAIN slot.items :
          slot'.items[index].generation # slot.items[index].generation
             => /\ last'.op \in {"remove", "clear", "drain_next"}
                /\ slot.items[index].item # None
                /\ slot'.items[index].item = None
                /\ slot'.items[index].generation =
                      (slot.items[index].generation + 1) % U8Mod]_vars

\* -------------------------------------------------------------------- C10

\* C10: a fresh iter() ends: next() returns None after at most len() items.
C10_IterFinite == Free => Len(IterAll(slot)) <= SlotLen(slot)

\* ---------------------------------------------------------- drain consumers

\* A consumer taking k items from drain() with its cursor at index
\* (drain().take(k)): the slot and cursor it leaves, the pairs it was given
\* in order, and "Some" when all k were yielded, else the result of the call
\* that yielded none.
RECURSIVE DrainTake(_, _, _, _)
DrainTake(s, index, k, overflow_checks) ==
    IF k = 0
    THEN [slot |-> s, index |-> index, result |-> "Some", out |-> << >>]
    ELSE LET r == DrainNext(s, index, overflow_checks, Capacity(s) + 1)
         IN IF r.result # "Some"
            THEN [slot |-> r.slot, index |-> r.index, result |-> r.result,
                  out |-> << >>]
            ELSE LET rest == DrainTake(r.slot, r.index, k - 1, overflow_checks)
                 IN [slot |-> rest.slot, index |-> rest.index,
                     result |-> rest.result,
                     out |-> << [id |-> r.id, value |-> r.value] >> \o rest.out]

\* The sequence seq without its first k elements.
DropFirst(seq, k) == SubSeq(seq, k + 1, Len(seq))

\* -------------------------------------------------------------------- C11

\* C11: after the first k items of drain() are consumed (0 <= k <= len())
\* and the iterator is dropped, iter() yields the former iter() sequence
\* without its first k elements, identifiers and values unchanged.
C11_PartialDrainKeepsRest ==
    Free =>
       \A k \in 0..SlotLen(slot), overflow_checks \in BOOLEAN :
          LET d == DrainTake(slot, slot.first_occupied, k, overflow_checks)
          IN d.result = "Some" => IterAll(d.slot) = DropFirst(IterAll(slot), k)

\* -------------------------------------------------------------------- C12

\* drain() consumed until its closure returns None: no more than one item
\* per slot can be yielded.
DrainAll(s, overflow_checks) ==
    DrainTake(s, s.first_occupied, Capacity(s) + 1, overflow_checks)

\* C12: after drain() is consumed to exhaustion, len() is 0, is_empty()
\* holds, capacity() is unchanged, and the pairs drain produced are, element
\* for element and in order, those iter() would have yielded just before the
\* drain, each identifier with the generation the slot had before it was
\* drained.
C12_DrainComplete ==
    Free =>
       \A overflow_checks \in BOOLEAN :
          LET d == DrainAll(slot, overflow_checks)
          IN d.result = "None" =>
                /\ SlotLen(d.slot) = 0
                /\ IsEmpty(d.slot)
                /\ Capacity(d.slot) = Capacity(slot)
                /\ d.out = IterAll(slot)

\* -------------------------------------------------------------------- C13

\* The identifier of slot index with its current generation, None for no slot.
CurrentId(s, index) ==
    IF index = None
    THEN IdNew(None, None)
    ELSE IdNew(index, s.items[index].generation)

\* The lowest and the highest of a set of indices, None when it is empty.
Lowest(indices) ==
    IF indices = {} THEN None ELSE CHOOSE i \in indices : \A j \in indices : i <= j

Highest(indices) ==
    IF indices = {} THEN None ELSE CHOOSE i \in indices : \A j \in indices : j <= i

\* C13: in every state reached by try_set, remove, clear and drain,
\* first_id() is the identifier (index and current generation) of the
\* lowest-index occupied slot and last_id() that of the highest, each is
\* absent exactly when no slot is occupied, and get accepts a returned
\* identifier.
C13_FirstLastId ==
    Free =>
       /\ FirstId(slot) = CurrentId(slot, Lowest(Occupied(slot)))
       /\ LastId(slot) = CurrentId(slot, Highest(Occupied(slot)))
       /\ (FirstId(slot) = IdNew(None, None)) <=> (Occupied(slot) = {})
       /\ (LastId(slot) = IdNew(None, None)) <=> (Occupied(slot) = {})
       /\ FirstId(slot) # IdNew(None, None) => Get(slot, FirstId(slot)).result = "Some"
       /\ LastId(slot) # IdNew(None, None) => Get(slot, LastId(slot)).result = "Some"

\* -------------------------------------------------------------------- C14

\* remove called with the current identifier of each index of the sequence
\* indices, one after the other.
RECURSIVE RemoveEach(_, _)
RemoveEach(s, indices) ==
    IF indices = << >>
    THEN s
    ELSE RemoveEach(Remove(s, CurrentId(s, Head(indices))).slot, Tail(indices))

\* The sequence seq backwards.
Reverse(seq) == [k \in 1..Len(seq) |-> seq[Len(seq) + 1 - k]]

\* C14: clear() leaves what calling remove on the current identifier of every
\* occupied slot, one by one, leaves: the same value, generation and links in
\* every slot and the same first_occupied; the generation of each slot that
\* was occupied is incremented once and a slot that was empty is untouched.
C14_ClearIsRemoveEach ==
    Free =>
       /\ Clear(slot) = RemoveEach(slot, ScanOccupied(slot, 0))
       /\ Clear(slot) = RemoveEach(slot, Reverse(ScanOccupied(slot, 0)))
       /\ \A index \in DOMAIN slot.items :
             IF slot.items[index].item # None
             THEN Clear(slot).items[index].generation =
                     WrappingAdd1(slot.items[index].generation)
             ELSE Clear(slot).items[index] = slot.items[index]

\* -------------------------------------------------------------------- C15

\* Identifiers a caller looks up: every index of the storage and the first
\* beyond it, with the probed generations.
IdProbes(s) == {IdNew(index, generation) : index \in IndexInputs(s), generation \in GenProbes}

\* C15: for every identifier, one whose index is at or beyond the capacity
\* included, get and get_mut give the same outcome: the stored value when
\* the slot is occupied and the generations are equal, absent otherwise, and
\* never a panic.
C15_GetAgreesWithGetMut ==
    Running =>
       \A id \in IdProbes(slot) :
          /\ Get(slot, id) = GetMut(slot, id)
          /\ Get(slot, id) =
                IF /\ InRange(slot, id.index)
                   /\ slot.items[id.index].item # None
                   /\ slot.items[id.index].generation = id.generation
                THEN Some(slot.items[id.index].item)
                ELSE [result |-> "None", value |-> None]

\* -------------------------------------------------------------------- C16

\* The calls that take &self, and get_mut, which hands out a reference and
\* writes nothing itself: each leaves the slot as it is and returns.
DoGet ==
    /\ Free
    /\ \E result \in {Get(slot, IdNew(index, generation)).result :
                          index \in IndexInputs(slot), generation \in GenInputs} :
          last' = Call("get", result)
    /\ UNCHANGED << slot, drain >>

DoGetMut ==
    /\ Free
    /\ \E result \in {GetMut(slot, IdNew(index, generation)).result :
                          index \in IndexInputs(slot), generation \in GenInputs} :
          last' = Call("get_mut", result)
    /\ UNCHANGED << slot, drain >>

DoLen ==
    /\ Free
    /\ last' = Call("len", IF IsEmpty(slot) THEN "Empty" ELSE "NonEmpty")
    /\ UNCHANGED << slot, drain >>

DoFirstId ==
    /\ Free
    /\ last' = Call("first_id", IF FirstId(slot) = IdNew(None, None) THEN "None" ELSE "Some")
    /\ UNCHANGED << slot, drain >>

DoLastId ==
    /\ Free
    /\ last' = Call("last_id", IF LastId(slot) = IdNew(None, None) THEN "None" ELSE "Some")
    /\ UNCHANGED << slot, drain >>

\* iter() consumed by a for loop: it ends, or never does.
DoIter ==
    /\ Free
    /\ last' = Call("iter", IF Len(IterAll(slot)) > Capacity(slot) THEN "Diverge" ELSE "Ok")
    /\ UNCHANGED << slot, drain >>

NextReads ==
    \/ Next
    \/ DoGet
    \/ DoGetMut
    \/ DoLen
    \/ DoFirstId
    \/ DoLastId
    \/ DoIter

\* The containers of fewer than MaxCapacity slots.
InitNarrow ==
    /\ \E capacity \in 0..(MaxCapacity - 1) : slot = New(capacity)
    /\ drain = NoDrain
    /\ last = Call("new", "Ok")

\* Every operation, the read-only ones included.
SpecReads == InitNarrow /\ [][NextReads]_vars

\* A call that failed or only read: try_set returning an error, remove
\* returning None, or get, get_mut, len, first_id, last_id, iter.
FailedOrReadOnly(call) ==
    \/ call.op = "try_set" /\ call.result \in {"IndexOutOfBounds", "Occupied"}
    \/ call.op = "remove" /\ call.result = "None"
    \/ call.op \in {"get", "get_mut", "len", "first_id", "last_id", "iter"}

\* C16: a failed call and a read-only call leave every slot's value,
\* generation and links and first_occupied as they were.
C16_FailedCallsChangeNothing ==
    [][FailedOrReadOnly(last') => slot' = slot]_vars

\* A try_set was refused on an occupied slot, whose generation 255 and value
\* are still there; the call before it had set them.
C16_Witness ==
    /\ last.op = "try_set"
    /\ last.result = "Occupied"
    /\ \E index \in DOMAIN slot.items :
          /\ slot.items[index].item # None
          /\ slot.items[index].generation = 255
          /\ slot.first_occupied = index

\* -------------------------------------------------------------------- C17

\* The longest sequence of pairs collected.
MaxPairs == 3

\* The minimum capacity from_iter gives the container.
FromIterFloor == 16

\* Indices of the collected identifiers: the first two slots, the last slot
\* of a container of FromIterFloor slots and the first index beyond it.
CollectIndices == {0, 1, FromIterFloor - 1, FromIterFloor}

CollectPairs ==
    {[id |-> IdNew(index, generation), value |-> value] :
        index \in CollectIndices, generation \in GenInputs, value \in Values}

\* The sequences an iterator hands to from_iter.
CollectInputs == UNION {[1..n -> CollectPairs] : n \in 0..MaxPairs}

\* The loop of from_iter over the pairs left: try_set on each, its result
\* dropped; a try_set that never returns keeps from_iter from returning.
RECURSIVE FromIterLoop(_, _)
FromIterLoop(s, pairs) ==
    IF pairs = << >>
    THEN [slot |-> s, result |-> "Ok"]
    ELSE LET r == TrySet(s, Head(pairs).id, Head(pairs).value)
         IN IF r.result = "Diverge"
            THEN [slot |-> r.slot, result |-> "Diverge"]
            ELSE FromIterLoop(r.slot, Tail(pairs))

\* from_iter over an iterator that yields pairs and whose size_hint has the
\* lower bound lower.
FromIter(pairs, lower) ==
    FromIterLoop(New(IF lower > FromIterFloor THEN lower ELSE FromIterFloor), pairs)

\* collect(): the container is built by from_iter, once in a run; the call
\* is recorded with the pairs it was given.
DoFromIter ==
    /\ last.op = "new"
    /\ \E pairs \in CollectInputs :
          \E lower \in 0..Len(pairs) :
             LET r == FromIter(pairs, lower)
             IN /\ slot' = r.slot
                /\ last' = [op |-> "from_iter", result |-> r.result, pairs |-> pairs]
    /\ drain' = NoDrain

SpecCollect == Init /\ [][DoFromIter]_vars

\* C17: collecting a finite sequence of pairs never fails; the capacity is
\* max(number of pairs, 16); when the indices are pairwise distinct get
\* returns the value of every pair; when an index repeats, the first pair
\* with it is the one stored.
C17_CollectStoresPairs ==
    last.op = "from_iter" =>
       LET pairs == last.pairs
           n == Len(pairs)
           FirstWithIndex(k) == \A j \in 1..(k - 1) : pairs[j].id.index # pairs[k].id.index
       IN /\ last.result = "Ok"
          /\ Capacity(slot) = IF n > FromIterFloor THEN n ELSE FromIterFloor
          /\ (\A k \in 1..n : FirstWithIndex(k)) =>
                \A k \in 1..n : Get(slot, pairs[k].id) = Some(pairs[k].value)
          /\ \A k \in 1..n :
                FirstWithIndex(k) => Get(slot, pairs[k].id) = Some(pairs[k].value)

\* -------------------------------------------------------------------- C18

\* C18: capacity() is the value passed to new(capacity) and no try_set,
\* successful or failed, remove, clear or drain changes it.
C18_CapacityConstant ==
    [][/\ Capacity(slot') = Capacity(slot)
       /\ last.op = "new" =>
             \E capacity \in 0..MaxCapacity :
                slot = New(capacity) /\ Capacity(slot) = capacity]_vars

\* A clear returned on a container of MaxCapacity slots, each of which has
\* held a value and lost it.
C18_Witness ==
    /\ last.op = "clear"
    /\ Capacity(slot) = MaxCapacity
    /\ \A index \in DOMAIN slot.items : slot.items[index].generation # 0

\* -------------------------------------------------------------------- C19

\* The slot after drain() yielded k items has exactly the k lowest-index
\* occupied slots of s emptied, their generation incremented by one, and
\* every other slot's value and generation as in s.
DrainedLowest(s, k, after) ==
    LET occupied == ScanOccupied(s, 0)
        drained == {occupied[j] : j \in 1..k}
    IN /\ \A index \in DOMAIN s.items :
             IF index \in drained
             THEN /\ after.items[index].item = None
                  /\ after.items[index].generation =
                        WrappingAdd1(s.items[index].generation)
             ELSE /\ after.items[index].item = s.items[index].item
                  /\ after.items[index].generation = s.items[index].generation
       /\ SlotLen(after) = SlotLen(s) - k

\* Consuming k items of a drain from the state s.
DrainRemovesWhatItYields(s) ==
    \A k \in 0..SlotLen(s), overflow_checks \in BOOLEAN :
       LET d == DrainTake(s, s.first_occupied, k, overflow_checks)
       IN d.result = "Some" => DrainedLowest(s, k, d.slot)

\* C19: drain() is lazy and removes only what it yields: with no item
\* consumed nothing has changed, and after k items were consumed exactly the
\* k lowest-index slots that were occupied are empty with their generation
\* incremented by one, every other slot keeps its value and generation, and
\* len() is k less.
C19_DrainRemovesLowest == Free => DrainRemovesWhatItYields(slot)

\* -------------------------------------------------------------------- C20

\* C20: the next call of a live drain() that takes an occupied slot whose
\* generation is 255 returns without a panic or overflow, yields the slot's
\* identifier with generation 255 and leaves the slot with generation 0, as
\* remove does.
C20_DrainWrapsGeneration ==
    (Running /\ drain.active) =>
       \A overflow_checks \in BOOLEAN :
          LET r == DrainNext(slot, drain.index, overflow_checks, Capacity(slot) + 1)
          IN \A index \in DOMAIN slot.items :
                (/\ slot.items[index].item # None
                 /\ slot.items[index].generation = U8Mod - 1
                 /\ r.slot.items[index].item = None)
                   => /\ r.result = "Some"
                      /\ r.id = IdNew(index, U8Mod - 1)
                      /\ r.value = slot.items[index].item
                      /\ r.slot.items[index].generation = 0
                      /\ r.slot.items[index].generation =
                            Remove(slot, IdNew(index, U8Mod - 1)).slot.items[index].generation

\* -------------------------------------------------------------------- C21

\* Between the slots s and after, every slot other than index has the value
\* (and so the occupancy) and the generation it had, and every identifier
\* of such a slot that get accepted is accepted with the same value.
OthersKept(s, index, after) ==
    /\ DOMAIN after.items = DOMAIN s.items
    /\ \A j \in DOMAIN s.items \ {index} :
          /\ after.items[j].item = s.items[j].item
          /\ after.items[j].generation = s.items[j].generation
          /\ \A generation \in GenProbes :
                Get(s, IdNew(j, generation)).result = "Some"
                   => Get(after, IdNew(j, generation)) = Get(s, IdNew(j, generation))

\* C21: a try_set or a remove addressed to index i changes the value, the
\* occupancy and the generation of no slot j # i, so an identifier of slot j
\* that get accepted before the call is accepted after it with the same
\* value.
\* Checked for the next call in the states a try_set refused out of bounds
\* leaves: that try_set is possible wherever a call is and changes nothing,
\* so every slot a call can start from is met there once.
C21_SlotIndependence ==
    (Free /\ last = Call("try_set", "IndexOutOfBounds")) =>
       \A index \in IndexInputs(slot), generation \in GenInputs :
          /\ LET removed == Remove(slot, IdNew(index, generation)).slot
             IN OthersKept(slot, index, removed)
          /\ \A item \in Values :
                LET set == TrySet(slot, IdNew(index, generation), item).slot
                IN OthersKept(slot, index, set)

\* A slot from which remove and try_set both rewrite a neighbour's links:
\* slot 0 was removed and slot 1, still occupied, is the first of the list,
\* so try_set on slot 0 links in front of it and remove of slot 1 unlinks it.
C21_Witness ==
    /\ last = Call("try_set", "IndexOutOfBounds")
    /\ Capacity(slot) = 2
    /\ TrySet(slot, IdNew(0, 1), 1).slot.items[1].previous_index = 0
    /\ slot.items[0].item = None
    /\ slot.items[0].generation = 1
    /\ slot.items[1].item # None
    /\ slot.first_occupied = 1
    /\ slot.items[1].previous_index = None

====
